---- MODULE Spec2Model ----
(***************************************************************************)
(* A model of the RESP codec of simple-redis: the frame model              *)
(* (src/resp/mod.rs), the encoder (src/resp/encode.rs) and the decoder     *)
(* (src/resp/decode.rs, declared by `mod decode;`).                        *)
(*                                                                         *)
(* A byte is its u8 value.  A byte string is a sequence of bytes.          *)
(***************************************************************************)
EXTENDS Integers, Sequences, FiniteSets, TLC

VARIABLES
    frame,   \* the RespFrame the application holds
    src,     \* what the peer put on the wire: "none", "frame" or "raw"
    wire,    \* the bytes the peer sends
    sent,    \* how many bytes of wire have reached buf
    buf,     \* the caller-owned BytesMut the decoder reads
    pre,     \* buf as it was when decode was last called
    res,     \* the result of the last decode call
    log      \* the insert(key, value) calls made on the map, in order

vars == <<frame, src, wire, sent, buf, pre, res, log>>

(***************************************************************************)
(* Bytes of the wire format.                                               *)
(***************************************************************************)
CR == 13
LF == 10
PLUS == 43
MINUS == 45
COLON == 58
DOLLAR == 36
STAR == 42
UNDERSCORE == 95
HASH == 35
COMMA == 44
PERCENT == 37
TILDE == 126
BANG == 33
DOT == 46
ZERO == 48
NINE == 57
LowerA == 97
LowerB == 98
LowerE == 101
LowerF == 102
LowerI == 105
LowerN == 110
LowerT == 116
UpperN == 78

CRLF == <<CR, LF>>

(***************************************************************************)
(* Bounds of the model.                                                    *)
(***************************************************************************)
MaxText == 2      \* longest text / payload drawn over TextBytes
MaxElems == 2     \* longest Array / Set drawn over the element pool
MaxInserts == 3   \* most insert calls on one map
MaxRaw == 3       \* longest raw byte string a peer sends
MaxChunk == 2     \* most bytes one read from the transport appends
LongLen == 10     \* length of the one long BulkString payload

(***************************************************************************)
(* Helpers on byte strings.                                                *)
(***************************************************************************)
RECURSIVE Flatten(_)
Flatten(ss) == IF ss = <<>> THEN <<>> ELSE Head(ss) \o Flatten(Tail(ss))

Zeros(n) == [i \in 1..n |-> ZERO]

\* format!("{}", n) for an unsigned n: its decimal digits
RECURSIVE DecNat(_)
DecNat(n) == IF n < 10 THEN <<ZERO + n>>
             ELSE DecNat(n \div 10) \o <<ZERO + (n % 10)>>

\* a limb's digits, zero-padded on the left to width w
PadLeft(ds, w) == Zeros(w - Len(ds)) \o ds

\* String's Ord: byte-lexicographic, a proper prefix first
RECURSIVE BytesLt(_, _)
BytesLt(a, b) ==
    IF b = <<>> THEN FALSE
    ELSE IF a = <<>> THEN TRUE
    ELSE IF Head(a) # Head(b) THEN Head(a) < Head(b)
    ELSE BytesLt(Tail(a), Tail(b))

(***************************************************************************)
(* i64.  TLC's integers are 32 bits wide, so a 64-bit value is held as a   *)
(* sign and a magnitude in limbs of nine decimal digits, most significant  *)
(* first, without leading zero limbs; zero is never negative.              *)
(***************************************************************************)
LimbDigits == 9

I64(neg, mag) == [neg |-> neg, mag |-> mag]
I64Zero == I64(FALSE, <<0>>)
I64Max == I64(FALSE, <<9, 223372036, 854775807>>)
I64Min == I64(TRUE, <<9, 223372036, 854775808>>)

\* self < 0
I64Lt0(n) == n.neg

\* the decimal digits of a magnitude
MagDigits(mag) ==
    DecNat(mag[1])
    \o Flatten([i \in 1..(Len(mag) - 1) |-> PadLeft(DecNat(mag[i + 1]), LimbDigits)])

\* format!("{}", self) for an i64: `-` for a negative value, then the digits
I64Display(n) == (IF n.neg THEN <<MINUS>> ELSE <<>>) \o MagDigits(n.mag)

(***************************************************************************)
(* f64.  A finite value is (-1)^neg * mag * 10^exp with mag its shortest   *)
(* round-trip decimal significand (mag % 10 # 0, or mag = 0 and exp = 0),  *)
(* which is what the standard formatter prints.  Zero keeps its sign.      *)
(***************************************************************************)
F64(kind, neg, mag, exp) == [kind |-> kind, neg |-> neg, mag |-> mag, exp |-> exp]
F64Zero == F64("fin", FALSE, 0, 0)
F64NaN == F64("nan", FALSE, 0, 0)
F64Inf(neg) == F64("inf", neg, 0, 0)

\* self.abs() >= 1e+8: the integer part has nine digits or more
F64AbsGe1e8(d) ==
    CASE d.kind = "inf" -> TRUE
      [] d.kind = "nan" -> FALSE
      [] OTHER -> d.mag # 0 /\ Len(DecNat(d.mag)) + d.exp >= 9

\* self < 0.0: false for either zero and for NaN
F64Lt0(d) ==
    CASE d.kind = "inf" -> d.neg
      [] d.kind = "nan" -> FALSE
      [] OTHER -> d.neg /\ d.mag # 0

\* the sign the standard formatter prints: `-` for a set sign bit, NaN unsigned
F64Sign(d) == IF d.neg /\ d.kind # "nan" THEN <<MINUS>> ELSE <<>>

\* format!("{}", self) for an f64: fixed-point, never an exponent
F64Display(d) ==
    F64Sign(d) \o
    CASE d.kind = "inf" -> <<LowerI, LowerN, LowerF>>
      [] d.kind = "nan" -> <<UpperN, LowerA, UpperN>>
      [] OTHER ->
           LET ds == DecNat(d.mag)
               p == Len(ds) + d.exp
           IN  IF d.mag = 0 THEN <<ZERO>>
               ELSE IF d.exp >= 0 THEN ds \o Zeros(d.exp)
               ELSE IF p > 0
                    THEN SubSeq(ds, 1, p) \o <<DOT>> \o SubSeq(ds, p + 1, Len(ds))
               ELSE <<ZERO, DOT>> \o Zeros(0 - p) \o ds

\* format!("{:e}", self) for an f64: d.ddde<exp>, no `+` in the exponent
F64LowerExp(d) ==
    F64Sign(d) \o
    CASE d.kind = "inf" -> <<LowerI, LowerN, LowerF>>
      [] d.kind = "nan" -> <<UpperN, LowerA, UpperN>>
      [] OTHER ->
           LET ds == DecNat(d.mag)
               e == IF d.mag = 0 THEN 0 ELSE d.exp + Len(ds) - 1
           IN  <<Head(ds)>>
               \o (IF Len(ds) > 1 THEN <<DOT>> \o Tail(ds) ELSE <<>>)
               \o <<LowerE>>
               \o (IF e < 0 THEN <<MINUS>> \o DecNat(0 - e) ELSE DecNat(e))

(***************************************************************************)
(* The frame model.  A RespFrame is a record of its variant `t` and the    *)
(* payload fields of all variants, of which the variant's own is used.     *)
(* A RespMap is a BTreeMap<String, RespFrame>: `keys` in ascending order,  *)
(* without repeats, and `items` their values.                              *)
(***************************************************************************)
Blank == [t |-> "Null", s |-> <<>>, i |-> I64Zero, d |-> F64Zero, b |-> FALSE,
          keys |-> <<>>, items |-> <<>>]

SimpleString(s) == [Blank EXCEPT !.t = "SimpleString", !.s = s]
SimpleError(s) == [Blank EXCEPT !.t = "Error", !.s = s]
Integer(n) == [Blank EXCEPT !.t = "Integer", !.i = n]
BulkString(s) == [Blank EXCEPT !.t = "BulkString", !.s = s]
RespNullBulkString == [Blank EXCEPT !.t = "NullBulkString"]
RespArray(items) == [Blank EXCEPT !.t = "Arrays", !.items = items]
RespNull == Blank
RespNullArray == [Blank EXCEPT !.t = "NullArray"]
Boolean(b) == [Blank EXCEPT !.t = "Boolean", !.b = b]
Double(d) == [Blank EXCEPT !.t = "Double", !.d = d]
RespMap(keys, items) == [Blank EXCEPT !.t = "Map", !.keys = keys, !.items = items]
RespSet(items) == [Blank EXCEPT !.t = "Set", !.items = items]

\* RespMap::new()
RespMapNew == RespMap(<<>>, <<>>)

\* how many keys of a sorted key sequence are below k
Rank(keys, k) == Cardinality({j \in 1..Len(keys) : BytesLt(keys[j], k)})

InsertAt(seq, n, x) == SubSeq(seq, 1, n) \o <<x>> \o SubSeq(seq, n + 1, Len(seq))

\* a mutant of MapInsert: a map that keeps insertion order
MapInsertAppend(m, k, v) ==
    IF \E j \in 1..Len(m.keys) : m.keys[j] = k
    THEN [m EXCEPT !.items[CHOOSE j \in 1..Len(m.keys) : m.keys[j] = k] = v]
    ELSE [m EXCEPT !.keys = Append(m.keys, k), !.items = Append(m.items, v)]

\* BTreeMap::insert through DerefMut: replace the value of a present key,
\* else put the pair at its place in key order
MapInsert(m, k, v) ==
    LET n == Rank(m.keys, k)
    IN  IF n < Len(m.keys) /\ m.keys[n + 1] = k
        THEN [m EXCEPT !.items[n + 1] = v]
        ELSE [m EXCEPT !.keys = InsertAt(m.keys, n, k),
                       !.items = InsertAt(m.items, n, v)]

(***************************************************************************)
(* The encoder.                                                            *)
(***************************************************************************)
\* a mutant of I64Encode: `+` for a positive value only
I64EncodePositive(n) ==
    LET sign == IF I64Lt0(n) \/ n.mag = <<0>> THEN <<>> ELSE <<PLUS>>
    IN  <<COLON>> \o sign \o I64Display(n) \o CRLF

I64Encode(n) ==
    LET sign == IF I64Lt0(n) THEN <<>> ELSE <<PLUS>>
    IN  <<COLON>> \o sign \o I64Display(n) \o CRLF

SimpleStringEncode(s) == <<PLUS>> \o s \o CRLF

\* a mutant of SimpleErrorEncode: the SimpleString tag
SimpleErrorEncodePlus(s) == <<PLUS>> \o s \o CRLF

\* a mutant of SimpleErrorEncode: the bulk-error tag, which is no frame type
SimpleErrorEncodeBang(s) == <<BANG>> \o s \o CRLF

SimpleErrorEncode(s) == <<MINUS>> \o s \o CRLF

\* a mutant of BulkStringEncode: the trailing CRLF counted in the length
BulkStringEncodeLong(s) == <<DOLLAR>> \o DecNat(Len(s) + 2) \o CRLF \o s \o CRLF

BulkStringEncode(s) == <<DOLLAR>> \o DecNat(Len(s)) \o CRLF \o s \o CRLF

RespNullBulkStringEncode == <<DOLLAR, MINUS, ZERO + 1, CR, LF>>

RespNullEncode == <<UNDERSCORE, CR, LF>>

\* a mutant of RespNullArrayEncode: the null bulk string's literal
RespNullArrayEncodeBulk == <<DOLLAR, MINUS, ZERO + 1, CR, LF>>

RespNullArrayEncode == <<STAR, MINUS, ZERO + 1, CR, LF>>

BoolEncode(b) == <<HASH>> \o (IF b THEN <<LowerT>> ELSE <<LowerF>>) \o CRLF

F64Encode(d) ==
    IF F64AbsGe1e8(d)
    THEN <<COMMA>> \o F64LowerExp(d) \o CRLF
    ELSE LET sign == IF F64Lt0(d) THEN <<>> ELSE <<PLUS>>
         IN  <<COMMA>> \o sign \o F64Display(d) \o CRLF

RECURSIVE FrameEncode(_)

\* for frame in self.0 { buf.extend_from_slice(&frame.encode()) }
RECURSIVE EncodeEach(_)
EncodeEach(items) ==
    IF items = <<>> THEN <<>>
    ELSE FrameEncode(Head(items)) \o EncodeEach(Tail(items))

\* for (k, v) in self.0 { SimpleString::new(k).encode(); v.encode() }
RECURSIVE EncodePairs(_, _)
EncodePairs(keys, items) ==
    IF keys = <<>> THEN <<>>
    ELSE SimpleStringEncode(Head(keys)) \o FrameEncode(Head(items))
         \o EncodePairs(Tail(keys), Tail(items))

RespArrayEncode(items) ==
    <<STAR>> \o DecNat(Len(items)) \o CRLF \o EncodeEach(items)

RespMapEncode(keys, items) ==
    <<PERCENT>> \o DecNat(Len(keys)) \o CRLF \o EncodePairs(keys, items)

\* a mutant of RespSetEncode: a set that keeps one of equal elements
RECURSIVE Unique(_)
Unique(items) ==
    IF items = <<>> THEN <<>>
    ELSE IF \E j \in 2..Len(items) : items[j] = Head(items) THEN Unique(Tail(items))
    ELSE <<Head(items)>> \o Unique(Tail(items))

RespSetEncodeUnique(items) ==
    <<TILDE>> \o DecNat(Len(Unique(items))) \o CRLF \o EncodeEach(Unique(items))

RespSetEncode(items) ==
    <<TILDE>> \o DecNat(Len(items)) \o CRLF \o EncodeEach(items)

\* enum_dispatch: the variant's own encode
FrameEncode(f) ==
    CASE f.t = "SimpleString" -> SimpleStringEncode(f.s)
      [] f.t = "Error" -> SimpleErrorEncode(f.s)
      [] f.t = "Integer" -> I64Encode(f.i)
      [] f.t = "BulkString" -> BulkStringEncode(f.s)
      [] f.t = "NullBulkString" -> RespNullBulkStringEncode
      [] f.t = "Arrays" -> RespArrayEncode(f.items)
      [] f.t = "Null" -> RespNullEncode
      [] f.t = "NullArray" -> RespNullArrayEncode
      [] f.t = "Boolean" -> BoolEncode(f.b)
      [] f.t = "Double" -> F64Encode(f.d)
      [] f.t = "Map" -> RespMapEncode(f.keys, f.items)
      [] f.t = "Set" -> RespSetEncode(f.items)

(***************************************************************************)
(* The decoder: expect_length, then decode.  decode.rs is not among the    *)
(* sources at hand; these definitions follow the design document's         *)
(* section 4.3 and the error taxonomy of RespError.  The numeric parsers   *)
(* are those of the standard library.                                      *)
(***************************************************************************)
Ok(f, n) == [st |-> "ok", frame |-> f, len |-> n, err |-> "none"]
NotComplete == [st |-> "nc", frame |-> RespNull, len |-> 0, err |-> "NotComplete"]
Fail(e) == [st |-> "err", frame |-> RespNull, len |-> 0, err |-> e]

Tags == {PLUS, MINUS, COLON, DOLLAR, STAR, UNDERSCORE, HASH, COMMA, PERCENT, TILDE}

Drop(b, n) == SubSeq(b, n + 1, Len(b))

\* the index of the CR of the first CRLF at or after index from, or 0
FindCrlf(b, from) ==
    LET at == {i \in from..(Len(b) - 1) : b[i] = CR /\ b[i + 1] = LF}
    IN  IF at = {} THEN 0 ELSE CHOOSE i \in at : \A j \in at : i <= j

IsDigit(x) == x \in ZERO..NINE
AllDigits(s) == \A i \in 1..Len(s) : IsDigit(s[i])

RECURSIVE StripZeros(_)
StripZeros(ds) ==
    IF Len(ds) > 1 /\ Head(ds) = ZERO THEN StripZeros(Tail(ds)) ELSE ds

\* the value of at most nine decimal digits
RECURSIVE DigitsValue(_)
DigitsValue(ds) ==
    IF ds = <<>> THEN 0
    ELSE DigitsValue(SubSeq(ds, 1, Len(ds) - 1)) * 10 + (ds[Len(ds)] - ZERO)

\* the limbs of a digit string without leading zeros
RECURSIVE DigitsLimbs(_)
DigitsLimbs(ds) ==
    IF Len(ds) <= LimbDigits THEN <<DigitsValue(ds)>>
    ELSE DigitsLimbs(SubSeq(ds, 1, Len(ds) - LimbDigits))
         \o <<DigitsValue(SubSeq(ds, Len(ds) - LimbDigits + 1, Len(ds)))>>

\* a <= b on magnitudes
RECURSIVE LimbsLe(_, _)
LimbsLe(a, b) ==
    IF a = <<>> THEN TRUE
    ELSE IF Head(a) # Head(b) THEN Head(a) < Head(b)
    ELSE LimbsLe(Tail(a), Tail(b))

MagLe(a, b) == Len(a) < Len(b) \/ (Len(a) = Len(b) /\ LimbsLe(a, b))

\* str::parse::<i64>: an optional sign, one digit or more, within the range
I64Bad == [ok |-> FALSE, val |-> I64Zero]

ParseMag(neg, mag) ==
    IF ~MagLe(mag, IF neg THEN I64Min.mag ELSE I64Max.mag) THEN I64Bad
    ELSE [ok |-> TRUE, val |-> I64(neg /\ mag # <<0>>, mag)]

ParseSigned(neg, ds) ==
    IF ds = <<>> \/ ~AllDigits(ds) THEN I64Bad
    ELSE ParseMag(neg, DigitsLimbs(StripZeros(ds)))

HasSign(body) == body # <<>> /\ body[1] \in {PLUS, MINUS}

Unsigned(body) == IF HasSign(body) THEN Tail(body) ELSE body

ParseI64(body) == ParseSigned(HasSign(body) /\ body[1] = MINUS, Unsigned(body))

\* the declared length or count of a header: an isize
LenOf(r) ==
    IF r.ok /\ Len(r.val.mag) = 1
    THEN [ok |-> TRUE, neg |-> r.val.neg, n |-> r.val.mag[1]]
    ELSE [ok |-> FALSE, neg |-> FALSE, n |-> 0]

ParseLen(body) == LenOf(ParseI64(body))

Lower(x) == IF x \in 65..90 THEN x + 32 ELSE x

FirstIndex(s, x) ==
    LET at == {i \in 1..Len(s) : s[i] = x}
    IN  IF at = {} THEN 0 ELSE CHOOSE i \in at : \A j \in at : i <= j

RECURSIVE StripTrailingZeros(_)
StripTrailingZeros(ds) ==
    IF Len(ds) > 1 /\ ds[Len(ds)] = ZERO
    THEN StripTrailingZeros(SubSeq(ds, 1, Len(ds) - 1)) ELSE ds

\* str::parse::<f64>: an optional sign, then inf, infinity or nan in any case,
\* or digits with an optional fraction and an optional exponent
F64Bad == [ok |-> FALSE, val |-> F64Zero]

\* the value of significand digits lead (sig without its trailing zeros),
\* nfrac of them after the point, times ten to the e
F64Value(neg, lead, sig, nfrac, e) ==
    IF DigitsValue(sig) = 0 THEN [ok |-> TRUE, val |-> F64("fin", neg, 0, 0)]
    ELSE [ok |-> TRUE,
          val |-> F64("fin", neg, DigitsValue(sig), e - nfrac + (Len(lead) - Len(sig)))]

F64Digits(neg, lead, nfrac, e) ==
    F64Value(neg, lead, StripTrailingZeros(lead), nfrac, e)

F64Parts(neg, ip, fp, hasExp, expR) ==
    IF ~AllDigits(ip) \/ ~AllDigits(fp) \/ ip \o fp = <<>> THEN F64Bad
    ELSE IF hasExp /\ ~LenOf(expR).ok THEN F64Bad
    ELSE F64Digits(neg, StripZeros(ip \o fp), Len(fp),
                   IF ~hasExp THEN 0
                   ELSE IF expR.val.neg THEN 0 - expR.val.mag[1] ELSE expR.val.mag[1])

F64Mantissa(neg, mant, dot, hasExp, expR) ==
    F64Parts(neg,
             IF dot = 0 THEN mant ELSE SubSeq(mant, 1, dot - 1),
             IF dot = 0 THEN <<>> ELSE Drop(mant, dot),
             hasExp, expR)

F64Number(neg, rest, ePos) ==
    F64Mantissa(neg,
                IF ePos = 0 THEN rest ELSE SubSeq(rest, 1, ePos - 1),
                FirstIndex(IF ePos = 0 THEN rest ELSE SubSeq(rest, 1, ePos - 1), DOT),
                ePos # 0,
                IF ePos = 0 THEN I64Bad ELSE ParseI64(Drop(rest, ePos)))

F64Named(neg, rest, low) ==
    IF low = <<LowerN, LowerA, LowerN>> THEN [ok |-> TRUE, val |-> F64NaN]
    ELSE IF low = <<LowerI, LowerN, LowerF>>
            \/ low = <<LowerI, LowerN, LowerF, LowerI, LowerN, LowerI, LowerT, 121>>
         THEN [ok |-> TRUE, val |-> F64Inf(neg)]
    ELSE F64Number(neg, rest, FirstIndex(low, LowerE))

F64Unsigned(neg, rest) ==
    IF rest = <<>> THEN F64Bad
    ELSE F64Named(neg, rest, [i \in 1..Len(rest) |-> Lower(rest[i])])

ParseF64(body) == F64Unsigned(HasSign(body) /\ body[1] = MINUS, Unsigned(body))

RECURSIVE ExpectLength(_)
RECURSIVE ExpectEach(_, _)

\* n bytes and then what q counts
ExpectSum(n, q) == IF q.st # "ok" THEN q ELSE Ok(RespNull, n + q.len)

\* r is the length of the first of count frames at the start of b
ExpectNext(b, count, r) ==
    IF r.st # "ok" THEN r
    ELSE IF r.len > Len(b) THEN NotComplete
    ELSE ExpectSum(r.len, ExpectEach(Drop(b, r.len), count - 1))

\* the bytes count frames occupy from the start of b
ExpectEach(b, count) ==
    IF count = 0 THEN Ok(RespNull, 0) ELSE ExpectNext(b, count, ExpectLength(b))

\* a size-prefixed frame whose header ends at c and declares h
ExpectSized(b, c, h) ==
    IF ~h.ok THEN Fail("ParseIntError")
    ELSE IF h.neg
         THEN IF h.n = 1 /\ b[1] \in {DOLLAR, STAR}
              THEN Ok(RespNull, c + 1)
              ELSE Fail("InvalidFrameLength")
    ELSE IF b[1] = DOLLAR THEN Ok(RespNull, c + 1 + h.n + 2)
    ELSE ExpectSum(c + 1, ExpectEach(Drop(b, c + 1),
                                     IF b[1] = PERCENT THEN 2 * h.n ELSE h.n))

\* a frame whose first CRLF is at c (0: none yet)
ExpectLine(b, c) ==
    IF c = 0 THEN NotComplete
    ELSE IF b[1] \notin {DOLLAR, STAR, PERCENT, TILDE} THEN Ok(RespNull, c + 1)
    ELSE ExpectSized(b, c, ParseLen(SubSeq(b, 2, c - 1)))

\* expect_length: the bytes the frame at the start of b occupies once complete
ExpectLength(b) ==
    IF b = <<>> THEN NotComplete
    ELSE IF b[1] \notin Tags THEN Fail("InvalidFrameType")
    ELSE IF b[1] = UNDERSCORE THEN Ok(RespNull, 3)
    ELSE ExpectLine(b, FindCrlf(b, 2))

RECURSIVE ParseFrame(_)
RECURSIVE ParseEach(_, _)

ParseCons(r, q) ==
    IF r.st # "ok" THEN [st |-> "err", items |-> <<>>, err |-> r.err]
    ELSE IF q.st # "ok" THEN q
    ELSE [st |-> "ok", items |-> <<r.frame>> \o q.items, err |-> "none"]

\* the first frame of b is n bytes long
ParseNext(b, count, n) ==
    ParseCons(ParseFrame(SubSeq(b, 1, n)), ParseEach(Drop(b, n), count - 1))

\* count frames parsed from the start of b, which holds them whole
ParseEach(b, count) ==
    IF count = 0 THEN [st |-> "ok", items |-> <<>>, err |-> "none"]
    ELSE ParseNext(b, count, ExpectLength(b).len)

\* the pairs of a map inserted in wire order; a key is a SimpleString
RECURSIVE InsertPairs(_, _)
InsertPairs(m, items) ==
    IF items = <<>> THEN Ok(m, 0)
    ELSE IF items[1].t # "SimpleString" THEN Fail("InvalidFrame")
    ELSE InsertPairs(MapInsert(m, items[1].s, items[2]), Drop(items, 2))

MapFrame(m, n) == IF m.st # "ok" THEN m ELSE Ok(m.frame, n)

\* an aggregate of n bytes with tag byte tag and elements each
AggregateOf(tag, n, each) ==
    IF each.st # "ok" THEN Fail(each.err)
    ELSE CASE tag = STAR -> Ok(RespArray(each.items), n)
           [] tag = TILDE -> Ok(RespSet(each.items), n)
           [] tag = PERCENT -> MapFrame(InsertPairs(RespMapNew, each.items), n)

ParseAggregate(b, c, h) ==
    IF h.neg THEN Ok(RespNullArray, Len(b))
    ELSE AggregateOf(b[1], Len(b),
                     ParseEach(Drop(b, c + 1), IF b[1] = PERCENT THEN 2 * h.n ELSE h.n))

ParseBulk(b, c, h) ==
    IF h.neg THEN Ok(RespNullBulkString, Len(b))
    ELSE IF SubSeq(b, Len(b) - 1, Len(b)) # CRLF THEN Fail("InvalidFrame")
    ELSE Ok(BulkString(SubSeq(b, c + 2, Len(b) - 2)), Len(b))

ParseInteger(r, n) == IF r.ok THEN Ok(Integer(r.val), n) ELSE Fail("ParseIntError")

ParseDouble(r, n) == IF r.ok THEN Ok(Double(r.val), n) ELSE Fail("ParseFloatError")

\* the frame of b whose first line, after the tag, is body and ends at c
ParseBody(b, c, body) ==
    CASE b[1] = UNDERSCORE ->
           IF Drop(b, 1) = CRLF THEN Ok(RespNull, Len(b)) ELSE Fail("InvalidFrame")
      [] b[1] = PLUS -> Ok(SimpleString(body), Len(b))
      [] b[1] = MINUS -> Ok(SimpleError(body), Len(b))
      [] b[1] = COLON -> ParseInteger(ParseI64(body), Len(b))
      [] b[1] = HASH ->
           IF body = <<LowerT>> THEN Ok(Boolean(TRUE), Len(b))
           ELSE IF body = <<LowerF>> THEN Ok(Boolean(FALSE), Len(b))
           ELSE Fail("InvalidFrame")
      [] b[1] = COMMA -> ParseDouble(ParseF64(body), Len(b))
      [] b[1] = DOLLAR -> ParseBulk(b, c, ParseLen(body))
      [] OTHER -> ParseAggregate(b, c, ParseLen(body))

ParseLine(b, c) == ParseBody(b, c, SubSeq(b, 2, c - 1))

\* the frame that b, one whole frame's bytes, holds
ParseFrame(b) == ParseLine(b, FindCrlf(b, 2))

\* e is what expect_length said of b
DecodeWhole(b, e) ==
    IF e.st # "ok" THEN e
    ELSE IF Len(b) < e.len THEN NotComplete
    ELSE ParseFrame(SubSeq(b, 1, e.len))

\* decode: dispatch on the first byte, NotComplete unless the whole frame is
\* buffered, else the frame and the bytes to remove from the front
FrameDecode(b) == DecodeWhole(b, ExpectLength(b))

(***************************************************************************)
(* The values the application and the peer are drawn from.                 *)
(***************************************************************************)
SeqsUpTo(S, n) == UNION {[1..k -> S] : k \in 0..n}

TextBytes == {LowerA, PLUS, CR, LF}
Texts == SeqsUpTo(TextBytes, MaxText)
LongPayload == [i \in 1..LongLen |-> LowerA]

I64Samples ==
    {I64Zero, I64(FALSE, <<1>>), I64(TRUE, <<1>>), I64(FALSE, <<10>>),
     I64(TRUE, <<123>>), I64(FALSE, <<123456789>>), I64(FALSE, <<1, 0>>),
     I64(TRUE, <<12, 5>>), I64Max, I64Min}

F64Samples ==
    {F64Zero, F64("fin", TRUE, 0, 0),
     F64("fin", FALSE, 15, -1), F64("fin", TRUE, 15, -1),
     F64("fin", FALSE, 123456, -5), F64("fin", TRUE, 123456, -3),
     F64("fin", FALSE, 1234567, -3), F64("fin", FALSE, 1, -3),
     F64("fin", FALSE, 99999999, 0), F64("fin", TRUE, 999999995, -1),
     F64("fin", FALSE, 1, 8), F64("fin", TRUE, 1, 8),
     F64("fin", FALSE, 123456789, 0), F64("fin", TRUE, 15, 9),
     F64NaN, F64Inf(FALSE), F64Inf(TRUE)}

Leaves ==
    {SimpleString(s) : s \in Texts} \cup {SimpleError(s) : s \in Texts}
    \cup {BulkString(s) : s \in Texts \cup {LongPayload}}
    \cup {Integer(n) : n \in I64Samples} \cup {Double(d) : d \in F64Samples}
    \cup {Boolean(b) : b \in BOOLEAN}
    \cup {RespNull, RespNullArray, RespNullBulkString}

ElemPool ==
    {SimpleString(<<>>), SimpleString(<<LowerA>>), SimpleString(CRLF),
     Integer(I64(TRUE, <<1>>)), BulkString(CRLF)}

ItemLists == SeqsUpTo(ElemPool, MaxElems)

\* the map of test_map_encode, built b first
MapAB ==
    MapInsert(MapInsert(RespMapNew, <<LowerB>>, Double(F64("fin", FALSE, 1234567, -3))),
              <<LowerA>>, Integer(I64(FALSE, <<1>>)))

MapSamples ==
    {RespMapNew, MapAB,
     MapInsert(MapAB, <<>>, RespNull),
     MapInsert(MapAB, <<LowerA, LowerB>>, RespArray(<<Boolean(TRUE)>>)),
     MapInsert(RespMapNew, CRLF, RespNullBulkString)}

Nested ==
    {RespArray(<<RespArray(<<SimpleString(<<LowerA>>)>>), Integer(I64Zero)>>),
     RespSet(<<RespSet(<<>>), RespSet(<<>>)>>),
     RespArray(<<RespSet(<<RespArray(<<>>), BulkString(CRLF)>>), MapAB>>),
     RespArray(<<SimpleString(<<LowerA>>), SimpleError(<<LowerA>>), Integer(I64Min),
                 BulkString(<<LF>>), RespNullBulkString, RespArray(<<>>), RespNull,
                 RespNullArray, Boolean(FALSE), Double(F64("fin", TRUE, 15, -1)),
                 MapAB, RespSet(<<Boolean(TRUE)>>)>>)}

Frames ==
    Leaves \cup {RespArray(x) : x \in ItemLists} \cup {RespSet(x) : x \in ItemLists}
    \cup MapSamples \cup Nested

RawBytes == {BANG, LowerA, PLUS, DOLLAR, CR, LF}
RawWires == SeqsUpTo(RawBytes, MaxRaw) \ {<<>>}

MapKeys == {<<>>, <<LowerA>>, <<LowerB>>, <<LowerA, LowerB>>}
MapValues == {Integer(I64(FALSE, <<1>>)), SimpleString(<<LowerA>>)}

NoResult == [st |-> "none", frame |-> RespNull, len |-> 0, err |-> "none"]

(***************************************************************************)
(* The codec over a stream: the application encodes a frame (or a peer     *)
(* sends raw bytes), the transport appends the bytes to the buffer in      *)
(* chunks, and the caller calls decode between reads.                      *)
(***************************************************************************)
InitFrame ==
    /\ frame \in Frames
    /\ src = "none"
    /\ wire = <<>>

InitRaw ==
    /\ frame = RespNull
    /\ src = "raw"
    /\ wire \in RawWires

Init ==
    /\ InitFrame \/ InitRaw
    /\ sent = 0
    /\ buf = <<>>
    /\ pre = <<>>
    /\ res = NoResult
    /\ log = <<>>

\* frame.encode()
Encode ==
    /\ src = "none"
    /\ src' = "frame"
    /\ wire' = FrameEncode(frame)
    /\ UNCHANGED <<frame, sent, buf, pre, res, log>>

\* the transport appends the next k bytes; the caller's last result is dropped
Recv(k) ==
    /\ src # "none"
    /\ sent + k <= Len(wire)
    /\ buf' = buf \o SubSeq(wire, sent + 1, sent + k)
    /\ sent' = sent + k
    /\ pre' = <<>>
    /\ res' = NoResult
    /\ UNCHANGED <<frame, src, wire, log>>

\* RespFrame::decode(&mut buf): the frame's bytes leave the buffer on success,
\* the buffer is untouched on NotComplete and undefined after a parse error
Decode ==
    /\ src # "none"
    /\ \E r \in {FrameDecode(buf)} :
           /\ res' = r
           /\ pre' = buf
           /\ CASE r.st = "ok" -> buf' = Drop(buf, r.len)
                [] r.st = "nc" -> buf' = buf
                [] OTHER -> \E n \in 0..Len(buf) : buf' = Drop(buf, n)
    /\ UNCHANGED <<frame, src, wire, sent, log>>

Next ==
    \/ Encode
    \/ \E k \in 1..MaxChunk : Recv(k)
    \/ Decode

Spec == Init /\ [][Next]_vars

(***************************************************************************)
(* A map under construction: insert calls on RespMap::new(), then encode.  *)
(***************************************************************************)
InitMap ==
    /\ frame = RespMapNew
    /\ src = "none"
    /\ wire = <<>>
    /\ sent = 0
    /\ buf = <<>>
    /\ pre = <<>>
    /\ res = NoResult
    /\ log = <<>>

\* frame.insert(k, v)
Insert(k, v) ==
    /\ src = "none"
    /\ frame.t = "Map"
    /\ Len(log) < MaxInserts
    /\ frame' = MapInsert(frame, k, v)
    /\ log' = Append(log, [k |-> k, v |-> v])
    /\ UNCHANGED <<src, wire, sent, buf, pre, res>>

NextMap ==
    \/ \E k \in MapKeys, v \in MapValues : Insert(k, v)
    \/ Encode

SpecMap == InitMap /\ [][NextMap]_vars
(***************************************************************************)
(* Properties.                                                             *)
(***************************************************************************)
NoCrLf(s) == \A i \in 1..Len(s) : s[i] \notin {CR, LF}

\* no SimpleString text, SimpleError text or Map key holds CR or LF
RECURSIVE WellFormed(_)
WellFormed(f) ==
    /\ f.t \in {"SimpleString", "Error"} => NoCrLf(f.s)
    /\ \A i \in 1..Len(f.keys) : NoCrLf(f.keys[i])
    /\ \A i \in 1..Len(f.items) : WellFormed(f.items[i])

WellFormedFrames == {f \in Frames : WellFormed(f)}

\* a negative zero Double somewhere in the frame
RECURSIVE HasNegZero(_)
HasNegZero(f) ==
    \/ f.t = "Double" /\ f.d = F64("fin", TRUE, 0, 0)
    \/ \E i \in 1..Len(f.items) : HasNegZero(f.items[i])

\* decode has just been called on all the bytes received so far, none of
\* which an earlier call removed
DecodedPrefix == res.st # "none" /\ pre = SubSeq(wire, 1, sent)

\* the call returned the frame and removed exactly its encoding
ReturnedFrame ==
    /\ res.st = "ok"
    /\ res.frame = frame
    /\ res.len = Len(wire)
    /\ buf = <<>>

\* the call returned NotComplete and left the buffer as it was
ReturnedNotComplete == res.st = "nc" /\ res.err = "NotComplete" /\ buf = pre

\* C1: decode on a buffer holding exactly encode(v) returns v and consumes
\* exactly length(encode(v)) bytes, for every constructible frame v.
RoundTripLaw ==
    (src = "frame" /\ DecodedPrefix /\ sent = Len(wire)) => ReturnedFrame

\* C2: decode on a strict prefix of a frame's encoding returns NotComplete
\* and leaves the buffer unchanged; once the rest has arrived it returns the
\* frame and removes exactly the encoding.
PartialBufferLaw ==
    (src = "frame" /\ DecodedPrefix) =>
        IF sent < Len(wire) THEN ReturnedNotComplete ELSE ReturnedFrame

\* The stream contract on frames whose text is free of CR and LF and which
\* hold no negative zero: both laws above hold of them.
StreamSound ==
    (src = "frame" /\ DecodedPrefix /\ WellFormed(frame) /\ ~HasNegZero(frame)) =>
        IF sent < Len(wire) THEN ReturnedNotComplete ELSE ReturnedFrame

NullVariants == {"NullBulkString", "NullArray", "Null"}

\* C3: the three nulls encode as `$-1` CRLF, `*-1` CRLF and `_` CRLF, three
\* different literals, and each literal decodes to the variant it came from.
NullDistinctness ==
    /\ (src = "frame" /\ frame.t = "NullBulkString") => wire = <<36, 45, 49, 13, 10>>
    /\ (src = "frame" /\ frame.t = "NullArray") => wire = <<42, 45, 49, 13, 10>>
    /\ (src = "frame" /\ frame.t = "Null") => wire = <<95, 13, 10>>
    /\ (src = "frame" /\ frame.t \in NullVariants /\ DecodedPrefix /\ sent = Len(wire))
          => (res.st = "ok" /\ res.frame.t = frame.t /\ res.len = Len(wire))

NullArrayDecoded ==
    /\ src = "frame"
    /\ frame = RespNullArray
    /\ DecodedPrefix
    /\ sent = Len(wire)
    /\ res.frame = RespNullArray

\* byte-lexicographic order: a proper prefix first, else the first differing byte
ByteLexLess(a, b) ==
    \E i \in 1..(Len(b)) :
        /\ \A j \in 1..(i - 1) : j <= Len(a) /\ a[j] = b[j]
        /\ i > Len(a) \/ (i <= Len(a) /\ a[i] < b[i])

KeysOf(l) == {l[i].k : i \in 1..Len(l)}

\* the value most recently inserted for key k
LastValue(l, k) ==
    l[CHOOSE i \in 1..Len(l) : l[i].k = k /\ \A j \in (i + 1)..Len(l) : l[j].k # k].v

RECURSIVE Ascending(_)
Ascending(S) ==
    IF S = {} THEN <<>>
    ELSE LET least == CHOOSE x \in S : \A y \in S \ {x} : ByteLexLess(x, y)
         IN  <<least>> \o Ascending(S \ {least})

\* the encoding the wire contract gives the mapping that inserts l leave
MapWire(l) ==
    LET ks == Ascending(KeysOf(l))
    IN  <<PERCENT>> \o DecNat(Cardinality(KeysOf(l))) \o CRLF
        \o Flatten([i \in 1..Len(ks) |->
                      <<PLUS>> \o ks[i] \o CRLF \o FrameEncode(LastValue(l, ks[i]))])

RECURSIVE InsertAll(_, _)
InsertAll(m, l) ==
    IF l = <<>> THEN m ELSE InsertAll(MapInsert(m, Head(l).k, Head(l).v), Tail(l))

SameMapping(l1, l2) ==
    /\ KeysOf(l1) = KeysOf(l2)
    /\ \A k \in KeysOf(l1) : LastValue(l1, k) = LastValue(l2, k)

\* C4: a map built by inserts encodes as `%`, the number of distinct keys,
\* CRLF, then each key once in ascending byte order as a SimpleString followed
\* by its latest value; inserts in another order that leave the same mapping
\* give the same bytes.
MapOrdering ==
    (src = "frame") =>
        /\ wire = MapWire(log)
        /\ \A p \in Permutations(1..Len(log)) :
              LET other == [i \in 1..Len(log) |-> log[p[i]]]
              IN  SameMapping(other, log) =>
                      FrameEncode(InsertAll(RespMapNew, other)) = wire

MapReordered ==
    /\ src = "frame"
    /\ Len(log) = 3
    /\ log[1].k = <<LowerB>>
    /\ log[2].k = <<LowerA>>
    /\ log[3].k = <<LowerB>>
    /\ log[3].v # log[1].v

\* C5: an Integer encodes as `:`, a `+` exactly when it is not negative, its
\* decimal representation (with `-` exactly when negative) and CRLF: one sign
\* character for every value.
IntegerSignRule ==
    (src = "frame" /\ frame.t = "Integer") =>
        LET n == frame.i
            body == SubSeq(wire, 2, Len(wire) - 2)
            digits == Tail(body)
        IN  /\ wire[1] = COLON
            /\ SubSeq(wire, Len(wire) - 1, Len(wire)) = CRLF
            /\ {i \in 1..Len(body) : body[i] \in {PLUS, MINUS}} = {1}
            /\ body[1] = PLUS <=> ~n.neg
            /\ digits # <<>> /\ AllDigits(digits)
            /\ StripZeros(digits) = digits
            /\ DigitsLimbs(digits) = n.mag

ZeroEncoded == src = "frame" /\ frame = Integer(I64Zero) /\ wire[2] = PLUS

\* C6: an Array or Set encodes as its tag, the number of its elements, CRLF
\* and the elements' encodings in order, nothing between or after them, equal
\* elements kept.
ArraySetFraming ==
    (src = "frame" /\ frame.t \in {"Arrays", "Set"}) =>
        wire = <<IF frame.t = "Arrays" THEN STAR ELSE TILDE>>
               \o DecNat(Len(frame.items)) \o CRLF
               \o Flatten([i \in 1..Len(frame.items) |-> FrameEncode(frame.items[i])])

SetWithDuplicates ==
    /\ src = "frame"
    /\ frame.t = "Set"
    /\ Len(frame.items) = 2
    /\ frame.items[1] = frame.items[2]

\* C7: a BulkString encodes as `$`, the number of its bytes, CRLF, the bytes
\* unchanged and CRLF; the declared length is the number of bytes between the
\* header's CRLF and the final CRLF, whatever the bytes are.
BulkStringFraming ==
    (src = "frame" /\ frame.t = "BulkString") =>
        LET c == FindCrlf(wire, 2)
            declared == ParseLen(SubSeq(wire, 2, c - 1))
        IN  /\ wire = <<DOLLAR>> \o DecNat(Len(frame.s)) \o CRLF \o frame.s \o CRLF
            /\ declared.ok /\ ~declared.neg
            /\ declared.n = Len(wire) - (c + 1) - 2
            /\ SubSeq(wire, c + 2, Len(wire) - 2) = frame.s

BulkWithCrlf == src = "frame" /\ frame = BulkString(CRLF)

TagTable == {43, 45, 58, 36, 42, 95, 35, 44, 37, 126}

\* C8: on a non-empty buffer whose first byte is no tag decode returns
\* InvalidFrameType, whatever follows; on a strict prefix of a valid encoding
\* it returns NotComplete.
TagDispatch ==
    /\ (res.st # "none" /\ pre # <<>> /\ pre[1] \notin TagTable)
          => (res.st = "err" /\ res.err = "InvalidFrameType")
    /\ (src = "frame" /\ WellFormed(frame) /\ DecodedPrefix /\ sent < Len(wire))
          => (res.st = "nc" /\ res.err = "NotComplete")

UnknownTagRejected ==
    /\ src = "raw"
    /\ pre = <<BANG, CR, LF>>
    /\ res.err = "InvalidFrameType"

\* C9: a Double encodes as `,`, a body and CRLF; the body is scientific
\* notation from 1e8 up in magnitude, else fixed-point after a `+` unless the
\* value is negative, and then starts with exactly one sign character.
DoubleSignRule ==
    (src = "frame" /\ frame.t = "Double") =>
        LET d == frame.d
            body == SubSeq(wire, 2, Len(wire) - 2)
        IN  /\ wire[1] = COMMA
            /\ SubSeq(wire, Len(wire) - 1, Len(wire)) = CRLF
            /\ IF F64AbsGe1e8(d) THEN body = F64LowerExp(d)
               ELSE /\ body = (IF F64Lt0(d) THEN <<>> ELSE <<PLUS>>) \o F64Display(d)
                    /\ body[1] \in {PLUS, MINUS}
                    /\ body[2] \notin {PLUS, MINUS}

====
